---- MODULE Spec2Model ----
(***************************************************************************)
(* Model of the gpak archive reader / patch writer (src/gpak.py) and of    *)
(* the in-place patch orchestrator (src/patch_gpak.py main).               *)
(*                                                                         *)
(* Bytes are naturals 0..255, a byte string is a sequence of bytes, a str  *)
(* is a sequence of Unicode code points.  A file is a record               *)
(* [ex, data]: whether the path exists and the bytes stored there.         *)
(***************************************************************************)
EXTENDS Integers, Sequences, FiniteSets, TLC

\* ------------------------------------------------------------------------
\* Bounds of the model
\* ------------------------------------------------------------------------
\* largest number of files in the translations directory / keys of a mapping
MaxRepl == 2
\* largest number of invocations of main in one behaviour
MaxRuns == 2

\* ------------------------------------------------------------------------
\* Program constants
\* ------------------------------------------------------------------------
COPY_CHUNK == 8 * 1024 * 1024

\* a writer that opens its sink on the target itself
tmp_path_target == "gpak"

gpak_path == "gpak"
backup_path == "bak"
tmp_path == "tmp"

\* ------------------------------------------------------------------------
\* Byte-level helpers: struct.pack / struct.unpack, UTF-8, file reads
\* ------------------------------------------------------------------------
Min(a, b) == IF a < b THEN a ELSE b

\* struct.pack("<I", n)
PackU32(n) ==
  << n % 256, (n \div 256) % 256, (n \div 65536) % 256, (n \div 16777216) % 256 >>

\* struct.pack("<H", n)
PackU16(n) == << n % 256, (n \div 256) % 256 >>

\* struct.unpack("<I", b) for a 4-byte b
UnpackU32(b) == b[1] + 256 * b[2] + 65536 * b[3] + 16777216 * b[4]

\* struct.unpack("<H", b) for a 2-byte b
UnpackU16(b) == b[1] + 256 * b[2]

\* the UTF-8 bytes of one code point
EncodeCodePoint(cp) ==
  IF cp < 128 THEN << cp >>
  ELSE IF cp < 2048 THEN << 192 + (cp \div 64), 128 + (cp % 64) >>
  ELSE IF cp < 65536
    THEN << 224 + (cp \div 4096), 128 + ((cp \div 64) % 64), 128 + (cp % 64) >>
  ELSE << 240 + (cp \div 262144), 128 + ((cp \div 4096) % 64),
          128 + ((cp \div 64) % 64), 128 + (cp % 64) >>

\* str.encode("utf-8")
RECURSIVE Utf8Encode(_)
Utf8Encode(s) ==
  IF s = << >> THEN << >> ELSE EncodeCodePoint(Head(s)) \o Utf8Encode(Tail(s))

IsCont(b, i) == i <= Len(b) /\ b[i] >= 128 /\ b[i] <= 191

\* bytes.decode("utf-8") from byte index i on, acc the code points so far;
\* ok = FALSE stands for UnicodeDecodeError
RECURSIVE Utf8DecodeFrom(_, _, _)
Utf8DecodeFrom(b, i, acc) ==
  IF i > Len(b) THEN [ok |-> TRUE, str |-> acc]
  ELSE IF b[i] < 128 THEN Utf8DecodeFrom(b, i + 1, Append(acc, b[i]))
  ELSE IF b[i] >= 194 /\ b[i] <= 223 /\ IsCont(b, i + 1)
    THEN Utf8DecodeFrom(b, i + 2, Append(acc, (b[i] - 192) * 64 + (b[i + 1] - 128)))
  ELSE IF b[i] >= 224 /\ b[i] <= 239 /\ IsCont(b, i + 1) /\ IsCont(b, i + 2)
    THEN LET cp == (b[i] - 224) * 4096 + (b[i + 1] - 128) * 64 + (b[i + 2] - 128)
         IN IF cp < 2048 \/ (cp >= 55296 /\ cp <= 57343)
              THEN [ok |-> FALSE, str |-> << >>]
              ELSE Utf8DecodeFrom(b, i + 3, Append(acc, cp))
  ELSE IF b[i] >= 240 /\ b[i] <= 244 /\ IsCont(b, i + 1) /\ IsCont(b, i + 2)
          /\ IsCont(b, i + 3)
    THEN LET cp == (b[i] - 240) * 262144 + (b[i + 1] - 128) * 4096
                   + (b[i + 2] - 128) * 64 + (b[i + 3] - 128)
         IN IF cp < 65536 \/ cp > 1114111
              THEN [ok |-> FALSE, str |-> << >>]
              ELSE Utf8DecodeFrom(b, i + 4, Append(acc, cp))
  ELSE [ok |-> FALSE, str |-> << >>]

Utf8Decode(b) == Utf8DecodeFrom(b, 1, << >>)

\* file.seek(pos); file.read(n): at most n bytes, fewer at end of file
FileRead(data, pos, n) ==
  IF pos >= Len(data) THEN << >> ELSE SubSeq(data, pos + 1, Min(pos + n, Len(data)))

\* ------------------------------------------------------------------------
\* Gpak.open
\* ------------------------------------------------------------------------
\* the directory loop: remaining entries still to read from position pos
RECURSIVE ReadDirectory(_, _, _, _)
ReadDirectory(data, pos, remaining, directory) ==
  IF remaining = 0
    THEN [err |-> "none", directory |-> directory, data_start |-> pos]
  ELSE
    LET lenb == FileRead(data, pos, 2)
    IN IF Len(lenb) # 2
         THEN [err |-> "struct.error", directory |-> << >>, data_start |-> 0]
       ELSE
         LET nameb == FileRead(data, pos + 2, UnpackU16(lenb))
             dec == Utf8Decode(nameb)
             sizeb == FileRead(data, pos + 2 + Len(nameb), 4)
         IN IF ~dec.ok
              THEN [err |-> "UnicodeDecodeError", directory |-> << >>, data_start |-> 0]
            ELSE IF Len(sizeb) # 4
              THEN [err |-> "struct.error", directory |-> << >>, data_start |-> 0]
            ELSE ReadDirectory(data, pos + 2 + Len(nameb) + 4, remaining - 1,
                               Append(directory,
                                      [name |-> dec.str, size |-> UnpackU32(sizeb)]))

\* an offset loop that advances the offset before it records the entry
RECURSIVE AssignOffsetsSkew(_, _, _)
AssignOffsetsSkew(directory, offset, entries) ==
  IF directory = << >> THEN entries
  ELSE AssignOffsetsSkew(Tail(directory), offset + Head(directory).size,
                         Append(entries, [name |-> Head(directory).name,
                                          size |-> Head(directory).size,
                                          offset |-> offset + Head(directory).size]))

\* the offset loop: entries get consecutive offsets from offset on
RECURSIVE AssignOffsets(_, _, _)
AssignOffsets(directory, offset, entries) ==
  IF directory = << >> THEN entries
  ELSE AssignOffsets(Tail(directory), offset + Head(directory).size,
                     Append(entries, [name |-> Head(directory).name,
                                      size |-> Head(directory).size,
                                      offset |-> offset]))

\* Gpak.open(file) on a file holding data: err # "none" is the exception raised
GpakOpen(data) ==
  LET hdr == FileRead(data, 0, 4)
  IN IF Len(hdr) # 4
       THEN [err |-> "struct.error", entries |-> << >>, data_start |-> 0]
     ELSE LET d == ReadDirectory(data, 4, UnpackU32(hdr), << >>)
          IN IF d.err # "none"
               THEN [err |-> d.err, entries |-> << >>, data_start |-> 0]
             ELSE [err |-> "none",
                   entries |-> AssignOffsets(d.directory, d.data_start, << >>),
                   data_start |-> d.data_start]

\* Gpak.read_entry
ReadEntry(data, entry) == FileRead(data, entry.offset, entry.size)

\* ------------------------------------------------------------------------
\* Replacement mappings: a dict is the sequence of its (name, value) items in
\* insertion order, names distinct.  A value is bytes ([kind |-> "bytes"])
\* or a Path ([kind |-> "path"]) naming a file of the translations directory.
\* ------------------------------------------------------------------------
\* name in replacements
InRepl(name, repl) == \E i \in 1..Len(repl) : repl[i].name = name

\* replacements[name]
Lookup(repl, name) == repl[CHOOSE i \in 1..Len(repl) : repl[i].name = name].value

\* list(replacements): the keys in insertion order
Keys(repl) == [i \in 1..Len(repl) |-> repl[i].name]

\* str < str: lexicographic on code points, a proper prefix is smaller
RECURSIVE StrLess(_, _)
StrLess(a, b) ==
  IF b = << >> THEN FALSE
  ELSE IF a = << >> THEN TRUE
  ELSE IF Head(a) # Head(b) THEN Head(a) < Head(b)
  ELSE StrLess(Tail(a), Tail(b))

\* sorted(names) for a list of distinct names
RECURSIVE Sorted(_)
Sorted(names) ==
  IF names = << >> THEN << >>
  ELSE LET m == CHOOSE i \in 1..Len(names) :
                  \A j \in 1..Len(names) : j = i \/ StrLess(names[i], names[j])
       IN << names[m] >> \o
          Sorted([k \in 1..(Len(names) - 1) |-> IF k < m THEN names[k] ELSE names[k + 1]])

\* new names taken in insertion order, not sorted
NewNamesInsertion(repl) == Keys(repl)

\* new_names = sorted(replacements)
NewNames(repl) == Sorted(Keys(repl))

\* replaced_indices: the indices of the entries whose name is a replacement key
ReplacedIndices(entries, repl) ==
  { i \in 1..Len(entries) : InRepl(entries[i].name, repl) }

\* kept: the entries whose index is not replaced, in directory order
RECURSIVE KeptFrom(_, _, _)
KeptFrom(entries, i, replaced) ==
  IF i > Len(entries) THEN << >>
  ELSE (IF i \in replaced THEN << >> ELSE << entries[i] >>)
       \o KeptFrom(entries, i + 1, replaced)

\* a partition that keeps every source entry
KeptAll(entries, repl) == entries

Kept(entries, repl) == KeptFrom(entries, 1, ReplacedIndices(entries, repl))

\* Path.stat() / Path.open() fail when the file does not exist
ValueMissing(value, dir) == value.kind = "path" /\ ~dir[value.path].ex

\* _replacement_size
ReplacementSize(value, dir) ==
  IF value.kind = "path" THEN Len(dir[value.path].data) ELSE Len(value.data)

\* _stream_copy(src, dst, size) with src at position pos: the bytes written
RECURSIVE StreamCopy(_, _, _)
StreamCopy(data, pos, remaining) ==
  IF remaining > 0
    THEN LET chunk == FileRead(data, pos, Min(remaining, COPY_CHUNK))
         IN IF chunk = << >> THEN << >>
            ELSE chunk \o StreamCopy(data, pos + Len(chunk), remaining - Len(chunk))
    ELSE << >>

\* _write_replacement: the bytes written
WriteReplacement(value, dir) ==
  IF value.kind = "path"
    THEN StreamCopy(dir[value.path].data, 0, Len(dir[value.path].data))
    ELSE value.data

\* one directory record: name length, name, size
DirRecord(name, size) ==
  PackU16(Len(Utf8Encode(name))) \o Utf8Encode(name) \o PackU32(size)

\* the writes of Gpak.patch after the header, in program order: the two
\* directory loops, then the two data loops
DirKeptOps(kept) ==
  [i \in 1..Len(kept) |-> [kind |-> "dir_kept", name |-> kept[i].name,
                           size |-> kept[i].size, offset |-> kept[i].offset]]
DirNewOps(names) ==
  [i \in 1..Len(names) |-> [kind |-> "dir_new", name |-> names[i],
                            size |-> 0, offset |-> 0]]
DataKeptOps(kept) ==
  [i \in 1..Len(kept) |-> [kind |-> "data_kept", name |-> kept[i].name,
                           size |-> kept[i].size, offset |-> kept[i].offset]]
DataNewOps(names) ==
  [i \in 1..Len(names) |-> [kind |-> "data_new", name |-> names[i],
                            size |-> 0, offset |-> 0]]

\* a writer whose data loops run in the other order
PatchOpsNewDataFirst(entries, repl) ==
  DirKeptOps(Kept(entries, repl)) \o DirNewOps(NewNames(repl))
  \o DataNewOps(NewNames(repl)) \o DataKeptOps(Kept(entries, repl))

PatchOps(entries, repl) ==
  DirKeptOps(Kept(entries, repl)) \o DirNewOps(NewNames(repl))
  \o DataKeptOps(Kept(entries, repl)) \o DataNewOps(NewNames(repl))

\* the header write: total = len(kept) + len(new_names)
PatchHeader(entries, repl) ==
  PackU32(Len(Kept(entries, repl)) + Len(NewNames(repl)))

\* does the write op raise (a replacement file that cannot be stat'd/opened)
OpRaises(op, repl, dir) ==
  op.kind \in {"dir_new", "data_new"} /\ ValueMissing(Lookup(repl, op.name), dir)

\* the bytes one write op puts on dst, srcdata the bytes of self.file
OpBytes(op, srcdata, repl, dir) ==
  IF op.kind = "dir_kept" THEN DirRecord(op.name, op.size)
  ELSE IF op.kind = "dir_new"
    THEN DirRecord(op.name, ReplacementSize(Lookup(repl, op.name), dir))
  ELSE IF op.kind = "data_kept" THEN StreamCopy(srcdata, op.offset, op.size)
  ELSE WriteReplacement(Lookup(repl, op.name), dir)

\* ------------------------------------------------------------------------
\* Inputs of the model
\* ------------------------------------------------------------------------
File(data) == [ex |-> TRUE, data |-> data]
NoFile == [ex |-> FALSE, data |-> << >>]

\* entry names: "a", "b", "é" (two bytes in UTF-8)
Names == { << 97 >>, << 98 >>, << 233 >> }

\* file contents of translated files: "X", "YZ"
Contents == { << 88 >>, << 89, 90 >> }

\* a.csv-like archive: a (2 bytes "AA"), b (1 byte "B")
ArchiveAB ==
  << 2, 0, 0, 0,  1, 0, 97,  2, 0, 0, 0,  1, 0, 98,  1, 0, 0, 0,  65, 65, 66 >>

\* an archive with a zero-size entry and a non-ASCII name: b (0 bytes),
\* "é" (1 byte "C")
ArchiveZero ==
  << 2, 0, 0, 0,  1, 0, 98,  0, 0, 0, 0,  2, 0, 195, 169,  1, 0, 0, 0,  67 >>

\* the archives the game ships: the unpatched target of the orchestrator
Originals == { ArchiveAB, ArchiveZero }

\* the names of the files the translators produce: "a", "é"
TransNames == { << 97 >>, << 233 >> }

\* the states of the translations directory: at most MaxRepl files
TransDirs ==
  { d \in [Names -> {NoFile} \cup { File(c) : c \in Contents }] :
      /\ \A n \in Names \ TransNames : ~d[n].ex
      /\ Cardinality({ n \in Names : d[n].ex }) <= MaxRepl }

\* the orders in which rglob can list the files of a directory
Orders(d) ==
  LET S == { n \in Names : d[n].ex }
  IN { o \in [1..Cardinality(S) -> S] :
         \A i, j \in 1..Cardinality(S) : o[i] = o[j] => i = j }

PathValue(n) == [kind |-> "path", data |-> << >>, path |-> n]
BytesValue(c) == [kind |-> "bytes", data |-> c, path |-> << >>]

\* collect_replacements: one item per file, keyed by its relative name, in
\* the order the files are listed
collect_replacements(order) ==
  [i \in 1..Len(order) |-> [name |-> order[i], value |-> PathValue(order[i])]]

\* ------------------------------------------------------------------------
\* State
\* ------------------------------------------------------------------------
VARIABLES
  fs,            \* the files at gpak_path, backup_path, tmp_path
  tdir,          \* the files of the translations directory, by relative name
  pc,            \* position of main
  no_backup,     \* argument of the running invocation
  replacements,  \* the replacement mapping of the running invocation
  src_path,      \* the patch source chosen
  gpak,          \* the Gpak object: the file it reads and its entries
  ops,           \* the writes Gpak.patch still has to do
  handles,       \* the file objects currently open
  exc,           \* the exception in flight or raised, "none" if none
  touched,       \* a replacement file changed between its stat and its copy
  pre,           \* history: target and backup when the try block was entered
  log,           \* history: (no_backup, outcome) of the finished invocations
  orig,          \* history: the archive the behaviour started with
  ret            \* what the last call of a Gpak method returned or raised

\* the state of translate.py
VARIABLES
  extracted,     \* the extracted CSV: key -> English text
  tfile,         \* the translated CSV: whether it exists, its en and target columns
  ckpt,          \* progress.json: the translations of the file it holds
  targs,         \* the arguments of the running invocation: fresh, workers
  tpc,           \* position of translate_file
  file_tr,       \* progress[filename]
  translations,  \* the translations mapping of translate_file
  to_keys,       \* the keys sent for translation
  batches,       \* the batches of keys
  bstate,        \* position of do_batch for each batch
  reply,         \* what translate_batch returned for each batch
  lock,          \* the batch holding the lock, 0 if none
  completed,     \* completed[0]
  truns,         \* history: the number of invocations started
  last_en,       \* history: key -> the English text last sent for it and merged
  done_order     \* history: the batches of the invocation in the order merged

tvars == << extracted, tfile, ckpt, targs, tpc, file_tr, translations,
            to_keys, batches, bstate, reply, lock, completed, truns,
            last_en, done_order >>

gvars == << fs, tdir, pc, no_backup, replacements, src_path, gpak, ops,
            handles, exc, touched, pre, log, orig, ret >>

vars == << gvars, tvars >>

\* no Gpak method has been called yet
NoRet == [op |-> "none", arg |-> << >>, err |-> "none", none |-> TRUE,
          val |-> << >>]

\* translate.py is not running
TIdle ==
  /\ extracted = << >>
  /\ tfile = [ex |-> FALSE, en |-> << >>, tr |-> << >>]
  /\ ckpt = << >>
  /\ targs = [fresh |-> FALSE, workers |-> 1]
  /\ tpc = "idle"
  /\ file_tr = << >>
  /\ translations = << >>
  /\ to_keys = << >>
  /\ batches = << >>
  /\ bstate = << >>
  /\ reply = << >>
  /\ lock = 0
  /\ completed = 0
  /\ truns = 0
  /\ last_en = << >>
  /\ done_order = << >>

NoGpak == [file |-> "none", entries |-> << >>, data_start |-> 0]

Ended == { "done", "failed", "raised", "exited" }

Init ==
  /\ orig \in Originals
  /\ fs = [p \in {gpak_path, backup_path, tmp_path} |->
             IF p = gpak_path THEN File(orig) ELSE NoFile]
  /\ tdir = [n \in Names |-> NoFile]
  /\ pc = "idle"
  /\ no_backup = FALSE
  /\ replacements = << >>
  /\ src_path = "none"
  /\ gpak = NoGpak
  /\ ops = << >>
  /\ handles = {}
  /\ exc = "none"
  /\ touched = FALSE
  /\ pre = [gpak |-> NoFile, bak |-> NoFile]
  /\ log = << >>
  /\ ret = NoRet
  /\ TIdle

\* main returns or raises: the invocation is over
Finish(outcome) ==
  /\ pc' = outcome
  /\ log' = Append(log, [nb |-> no_backup, outcome |-> outcome])

\* ------------------------------------------------------------------------
\* main of patch_gpak.py
\* ------------------------------------------------------------------------
\* the checks before the backup; sys.exit(1) when the archive is missing or
\* no translated file is found.  gpak_path is given and the translations
\* directory exists; the invocation finds the directory in any of its states.
Start ==
  /\ pc \in Ended \cup {"idle"}
  /\ Len(log) < MaxRuns
  /\ \E nb \in BOOLEAN, d \in TransDirs :
       \E order \in Orders(d) :
         /\ no_backup' = nb
         /\ tdir' = d
         /\ replacements' = collect_replacements(order)
         /\ IF ~fs[gpak_path].ex \/ order = << >>
              THEN /\ pc' = "exited"
                   /\ log' = Append(log, [nb |-> nb, outcome |-> "exited"])
              ELSE pc' = "backup" /\ log' = log
  /\ src_path' = "none"
  /\ gpak' = NoGpak
  /\ ops' = << >>
  /\ exc' = "none"
  /\ touched' = FALSE
  /\ UNCHANGED << ret, tvars >>
  /\ UNCHANGED << fs, handles, pre, orig >>

\* a backup step that copies whenever backup is enabled
NeedsBackupAlways(nb, f) == ~nb

\* does the backup step copy the archive
NeedsBackup(nb, f) == ~nb /\ ~f[backup_path].ex

\* the backup step, shutil.copy2 succeeding
Backup ==
  /\ pc = "backup"
  /\ fs' = IF NeedsBackup(no_backup, fs)
             THEN [fs EXCEPT ![backup_path] = fs[gpak_path]]
             ELSE fs
  /\ pc' = "select"
  /\ UNCHANGED << ret, tvars >>
  /\ UNCHANGED << tdir, no_backup, replacements, src_path, gpak, ops, handles,
                  exc, touched, pre, log, orig >>

\* what a copy that fails can leave at the destination: nothing, an empty
\* file, or the file without its last byte
PartialCopies(data) ==
  { NoFile, File(<< >>) }
  \cup (IF data = << >> THEN {} ELSE { File(SubSeq(data, 1, Len(data) - 1)) })

\* the backup step, shutil.copy2 raising: main raises outside the try block
BackupFail ==
  /\ pc = "backup"
  /\ NeedsBackup(no_backup, fs)
  /\ \E part \in PartialCopies(fs[gpak_path].data) :
       fs' = [fs EXCEPT ![backup_path] = part]
  /\ exc' = "OSError"
  /\ Finish("raised")
  /\ UNCHANGED << ret, tvars >>
  /\ UNCHANGED << tdir, no_backup, replacements, src_path, gpak, ops, handles,
                  touched, pre, orig >>

\* a source selection that always patches the target
SrcPathTarget(f) == gpak_path

\* src_path = backup_path if backup_path.exists() else gpak_path
SrcPath(f) == IF f[backup_path].ex THEN backup_path ELSE gpak_path

SelectSrc ==
  /\ pc = "select"
  /\ src_path' = SrcPath(fs)
  /\ pre' = [gpak |-> fs[gpak_path], bak |-> fs[backup_path]]
  /\ pc' = "open"
  /\ UNCHANGED << ret, tvars >>
  /\ UNCHANGED << fs, tdir, no_backup, replacements, gpak, ops, handles, exc,
                  touched, log, orig >>

\* with src_path.open("rb") as src, tmp_path.open("wb") as dst
OpenFiles ==
  /\ pc = "open"
  /\ handles' = {"src", "dst"}
  /\ fs' = [fs EXCEPT ![tmp_path] = File(<< >>)]
  /\ pc' = "gpak_open"
  /\ UNCHANGED << ret, tvars >>
  /\ UNCHANGED << tdir, no_backup, replacements, src_path, gpak, ops, exc,
                  touched, pre, log, orig >>

\* gpak = Gpak.open(src)
DoGpakOpen ==
  /\ pc = "gpak_open"
  /\ LET r == GpakOpen(fs[src_path].data)
     IN IF r.err # "none"
          THEN /\ pc' = "except"
               /\ exc' = r.err
               /\ handles' = {}
               /\ gpak' = gpak
          ELSE /\ pc' = "patch_enter"
               /\ gpak' = [file |-> src_path, entries |-> r.entries,
                           data_start |-> r.data_start]
               /\ UNCHANGED << exc, handles >>
  /\ UNCHANGED << ret, tvars >>
  /\ UNCHANGED << fs, tdir, no_backup, replacements, src_path, ops, touched,
                  pre, log, orig >>

\* dst.write appends to the file dst was opened on
WriteDst(f, bytes) == [f EXCEPT ![tmp_path].data = @ \o bytes]

\* Gpak.patch up to the header write
PatchEnter ==
  /\ pc = "patch_enter"
  /\ fs' = WriteDst(fs, PatchHeader(gpak.entries, replacements))
  /\ ops' = PatchOps(gpak.entries, replacements)
  /\ pc' = "patch"
  /\ UNCHANGED << ret, tvars >>
  /\ UNCHANGED << tdir, no_backup, replacements, src_path, gpak, handles, exc,
                  touched, pre, log, orig >>

\* one iteration of one of the four loops of Gpak.patch
PatchStep ==
  /\ pc = "patch"
  /\ ops # << >>
  /\ IF OpRaises(Head(ops), replacements, tdir)
       THEN /\ pc' = "except"
            /\ exc' = "FileNotFoundError"
            /\ handles' = {}
            /\ UNCHANGED << fs, ops >>
       ELSE /\ fs' = WriteDst(fs, OpBytes(Head(ops), fs[gpak.file].data,
                                          replacements, tdir))
            /\ ops' = Tail(ops)
            /\ UNCHANGED << pc, exc, handles >>
  /\ UNCHANGED << ret, tvars >>
  /\ UNCHANGED << tdir, no_backup, replacements, src_path, gpak, touched, pre,
                  log, orig >>

\* Gpak.patch returns
PatchReturn ==
  /\ pc = "patch"
  /\ ops = << >>
  /\ pc' = "patched"
  /\ ret' = [op |-> "patch", arg |-> << >>, err |-> "none", none |-> TRUE,
             val |-> << >>]
  /\ UNCHANGED tvars
  /\ UNCHANGED << fs, tdir, no_backup, replacements, src_path, gpak, ops,
                  handles, exc, touched, pre, log, orig >>

\* the with block is left: both files are closed
WithExit ==
  /\ pc = "patched"
  /\ handles' = {}
  /\ pc' = "swap"
  /\ UNCHANGED << ret, tvars >>
  /\ UNCHANGED << fs, tdir, no_backup, replacements, src_path, gpak, ops, exc,
                  touched, pre, log, orig >>

\* tmp_path.replace(gpak_path)
Swap ==
  /\ pc = "swap"
  /\ fs' = [p \in DOMAIN fs |->
              IF p = gpak_path THEN fs[tmp_path]
              ELSE IF p = tmp_path THEN NoFile ELSE fs[p]]
  /\ Finish("done")
  /\ UNCHANGED << ret, tvars >>
  /\ UNCHANGED << tdir, no_backup, replacements, src_path, gpak, ops, handles,
                  exc, touched, pre, orig >>

\* a step of the try block fails with an I/O error
IoFailure ==
  /\ pc \in {"open", "gpak_open", "patch_enter", "patch", "patched", "swap"}
  /\ pc' = "except"
  /\ exc' = "OSError"
  /\ handles' = {}
  /\ UNCHANGED << ret, tvars >>
  /\ UNCHANGED << fs, tdir, no_backup, replacements, src_path, gpak, ops,
                  touched, pre, log, orig >>

\* a handler that leaves the temp file behind
UnlinkKeep(f) == f

\* tmp_path.unlink(missing_ok=True)
Unlink(f) == [f EXCEPT ![tmp_path] = NoFile]

\* except Exception: unlink the temp file and re-raise
HandleException ==
  /\ pc = "except"
  /\ fs' = Unlink(fs)
  /\ Finish("failed")
  /\ UNCHANGED << ret, tvars >>
  /\ UNCHANGED << tdir, no_backup, replacements, src_path, gpak, ops, handles,
                  exc, touched, pre, orig >>

\* the directory loop has written the size of name, the data loop has not
\* yet written its bytes
InWindow(name) ==
  /\ \E i \in 1..Len(ops) : ops[i].kind = "data_new" /\ ops[i].name = name
  /\ ~\E i \in 1..Len(ops) : ops[i].kind = "dir_new" /\ ops[i].name = name

\* another process rewrites a replacement file between the stat of the
\* directory loop and the stat and copy of the data loop
EnvTouch ==
  /\ pc = "patch"
  /\ ~touched
  /\ \E i \in 1..Len(replacements), c \in Contents :
       LET v == replacements[i].value
       IN /\ v.kind = "path"
          /\ InWindow(replacements[i].name)
          /\ tdir[v.path].ex
          /\ tdir[v.path].data # c
          /\ tdir' = [tdir EXCEPT ![v.path] = File(c)]
  /\ touched' = TRUE
  /\ UNCHANGED << ret, tvars >>
  /\ UNCHANGED << fs, pc, no_backup, replacements, src_path, gpak, ops,
                  handles, exc, pre, log, orig >>

Next ==
  \/ Start
  \/ Backup
  \/ BackupFail
  \/ SelectSrc
  \/ OpenFiles
  \/ DoGpakOpen
  \/ PatchEnter
  \/ PatchStep
  \/ PatchReturn
  \/ WithExit
  \/ Swap
  \/ IoFailure
  \/ HandleException

Spec == Init /\ [][Next]_vars

\* ------------------------------------------------------------------------
\* Gpak.open and Gpak.patch on their own: the inputs are drawn by the
\* initial state, the caller holds both files open
\* ------------------------------------------------------------------------
\* two entries with the same name: a (1 byte "A"), a (1 byte "B")
ArchiveDup ==
  << 2, 0, 0, 0,  1, 0, 97,  1, 0, 0, 0,  1, 0, 97,  1, 0, 0, 0,  65, 66 >>

\* ArchiveAB without its last data byte
ArchiveShort ==
  << 2, 0, 0, 0,  1, 0, 97,  2, 0, 0, 0,  1, 0, 98,  1, 0, 0, 0,  65, 65 >>

\* ArchiveAB cut inside its directory
ArchiveCut == << 2, 0, 0, 0,  1, 0, 97,  2, 0, 0, 0,  1, 0, 98,  1, 0 >>

\* one entry whose name is not valid UTF-8
ArchiveBadName == << 1, 0, 0, 0,  1, 0, 255,  0, 0, 0, 0 >>

\* no entries
ArchiveEmpty == << 0, 0, 0, 0 >>

Sources ==
  { ArchiveAB, ArchiveZero, ArchiveDup, ArchiveShort, ArchiveCut,
    ArchiveBadName, ArchiveEmpty }

\* the files the Path values refer to: "a" holds "X", "b" holds "YZ", "é"
\* does not exist
PatchDir ==
  [n \in Names |-> IF n = << 97 >> THEN File(<< 88 >>)
                   ELSE IF n = << 98 >> THEN File(<< 89, 90 >>) ELSE NoFile]

Values == { BytesValue(<< >>), BytesValue(<< 88 >>) } \cup { PathValue(n) : n \in Names }

\* the dicts of at most MaxRepl items
Mappings ==
  UNION { { m \in [1..k -> [name : Names, value : Values]] :
              \A i, j \in 1..k : m[i].name = m[j].name => i = j } : k \in 0..MaxRepl }

InitPatch ==
  /\ orig \in Sources
  /\ fs = [p \in {gpak_path, backup_path, tmp_path} |->
             IF p = gpak_path THEN File(orig)
             ELSE IF p = tmp_path THEN File(<< >>) ELSE NoFile]
  /\ tdir = PatchDir
  /\ pc = "gpak_open"
  /\ no_backup = FALSE
  /\ replacements \in Mappings
  /\ src_path = gpak_path
  /\ gpak = NoGpak
  /\ ops = << >>
  /\ handles = {"src", "dst"}
  /\ exc = "none"
  /\ touched = FALSE
  /\ pre = [gpak |-> NoFile, bak |-> NoFile]
  /\ log = << >>
  /\ ret = NoRet
  /\ TIdle

\* Gpak.open on the archive Gpak.patch has written
ReopenOutput ==
  /\ pc = "patched"
  /\ LET r == GpakOpen(fs[tmp_path].data)
     IN IF r.err # "none"
          THEN pc' = "except" /\ exc' = r.err /\ gpak' = gpak
          ELSE /\ pc' = "reopened"
               /\ gpak' = [file |-> tmp_path, entries |-> r.entries,
                           data_start |-> r.data_start]
               /\ exc' = exc
  /\ UNCHANGED << ret, tvars >>
  /\ UNCHANGED << fs, tdir, no_backup, replacements, src_path, ops, handles,
                  touched, pre, log, orig >>

RECURSIVE FindFrom(_, _, _)
\* Gpak.find: the entries are scanned from the first and the first entry of
\* that name is returned; 0 stands for None
FindFrom(entries, name, i) ==
  IF i > Len(entries) THEN 0
  ELSE IF entries[i].name = name THEN i
  ELSE FindFrom(entries, name, i + 1)

Find(entries, name) == FindFrom(entries, name, 1)

\* a call of Gpak.find on the opened archive
DoFind ==
  /\ pc = "patch_enter"
  /\ \E name \in Names :
       LET i == Find(gpak.entries, name)
       IN ret' = [op |-> "find", arg |-> name, err |-> "none", none |-> (i = 0),
                  val |-> IF i = 0 THEN << >> ELSE gpak.entries[i]]
  /\ pc' = "found"
  /\ UNCHANGED tvars
  /\ UNCHANGED << fs, tdir, no_backup, replacements, src_path, gpak, ops,
                  handles, exc, touched, pre, log, orig >>

\* a call of Gpak.read_entry on an entry of the opened archive
DoReadEntry ==
  /\ pc = "patch_enter"
  /\ \E i \in 1..Len(gpak.entries) :
       ret' = [op |-> "read_entry", arg |-> i, err |-> "none", none |-> FALSE,
               val |-> ReadEntry(fs[gpak.file].data, gpak.entries[i])]
  /\ pc' = "read"
  /\ UNCHANGED tvars
  /\ UNCHANGED << fs, tdir, no_backup, replacements, src_path, gpak, ops,
                  handles, exc, touched, pre, log, orig >>

NextPatch ==
  \/ DoGpakOpen
  \/ DoFind
  \/ DoReadEntry
  \/ PatchEnter
  \/ PatchStep
  \/ PatchReturn
  \/ EnvTouch
  \/ ReopenOutput

SpecPatch == InitPatch /\ [][NextPatch]_vars

\* ------------------------------------------------------------------------
\* Helpers of the properties
\* ------------------------------------------------------------------------
\* everything a run of the write ops puts on dst
RECURSIVE OpsBytes(_, _, _, _)
OpsBytes(todo, srcdata, repl, dir) ==
  IF todo = << >> THEN << >>
  ELSE OpBytes(Head(todo), srcdata, repl, dir) \o OpsBytes(Tail(todo), srcdata, repl, dir)

\* the archive Gpak.patch writes from the opened source while no file changes
PatchOutput(srcdata, entries, repl, dir) ==
  PatchHeader(entries, repl) \o OpsBytes(PatchOps(entries, repl), srcdata, repl, dir)

\* patch(archive, replacements) for an archive given by its bytes
PatchOf(srcdata, repl, dir) ==
  PatchOutput(srcdata, GpakOpen(srcdata).entries, repl, dir)

\* the bytes of the patch source when the try block was entered
SrcAtEntry == IF src_path = backup_path THEN pre.bak.data ELSE pre.gpak.data

\* position of main inside the try block, the handler included
InTry == { "open", "gpak_open", "patch_enter", "patch", "patched", "swap", "except" }

\* ------------------------------------------------------------------------
\* Properties of the orchestrator (specification Spec)
\* ------------------------------------------------------------------------
\* C1: when a step of the try block has failed and main has exited, the
\* target and the backup hold the bytes they held when the try block was
\* entered, the temp file does not exist, and the exception is raised.
C1_FailureAtomicity ==
  pc = "failed" =>
    /\ fs[gpak_path] = pre.gpak
    /\ fs[backup_path] = pre.bak
    /\ ~fs["tmp"].ex
    /\ exc # "none"

\* a write failed in the middle of the data section: the temp file had
\* received the directory and some data, and main has exited
C1_Witness ==
  /\ pc = "failed"
  /\ exc = "OSError"
  /\ ops # << >>
  /\ ops[1].kind = "data_new"
  /\ fs[backup_path].ex

\* C2: during a run the target holds the complete archive of before the
\* call, after a successful run the complete archive the patch writer wrote;
\* the target changes only by the rename of the temp file, taken after the
\* writer has finished and both files are closed.
C2_TargetOldOrNew ==
  /\ [](/\ pc \in InTry \cup {"failed"} => fs[gpak_path] = pre.gpak
        /\ pc = "done" =>
             fs[gpak_path] =
               File(PatchOutput(SrcAtEntry, gpak.entries, replacements, tdir)))
  /\ [][fs'[gpak_path] # fs[gpak_path] =>
          /\ pc = "swap" /\ pc' = "done"
          /\ ops = << >>
          /\ handles = {}
          /\ fs'[gpak_path] = fs["tmp"]]_vars

\* a run has replaced the target by a different, complete archive
C2_Witness ==
  /\ pc = "done"
  /\ fs[gpak_path] # pre.gpak
  /\ Len(replacements) = 2

\* C3: after a first successful run with backup enabled on the unpatched
\* target, every later successful run leaves patch(original, its own
\* replacement set) in the target.
C3_RebaseOnOriginal ==
  (pc = "done" /\ Len(log) >= 2 /\ log[1] = [nb |-> FALSE, outcome |-> "done"])
    => fs[gpak_path].data = PatchOf(orig, replacements, tdir)

\* the second run started from a target that the first run had patched, and
\* patching that target instead of the backup would have given another result
C3_Witness ==
  /\ pc = "done"
  /\ Len(log) = 2
  /\ log[1] = [nb |-> FALSE, outcome |-> "done"]
  /\ pre.gpak.data # orig
  /\ PatchOf(pre.gpak.data, replacements, tdir) # fs[gpak_path].data

\* C4: an existing backup file never changes; the backup changes only in the
\* backup step of an invocation with backup enabled and no backup file, and
\* what it receives is a copy of the target (a partial one if the copy fails).
C4_BackupWriteOnce ==
  [][/\ fs[backup_path].ex => fs'[backup_path] = fs[backup_path]
     /\ fs'[backup_path] # fs[backup_path] =>
          /\ pc = "backup" /\ ~no_backup /\ ~fs[backup_path].ex
          /\ \/ pc' = "select" /\ fs'[backup_path] = fs[gpak_path]
             \/ pc' = "raised" /\ fs'[backup_path] \in PartialCopies(fs[gpak_path].data)]_vars

\* two invocations with backup enabled have succeeded; the backup still holds
\* the original while the target has been patched
C4_Witness ==
  /\ pc = "done"
  /\ Len(log) = 2
  /\ log[1] = [nb |-> FALSE, outcome |-> "done"]
  /\ ~no_backup
  /\ fs[backup_path] = File(orig)
  /\ fs[gpak_path].data # orig

\* C5 as claimed: whenever all invocations so far have succeeded, the patch
\* source just selected holds the original archive.
C5_SourceIsOriginal ==
  (pc = "open" /\ \A i \in 1..Len(log) : log[i].outcome = "done")
    => fs[src_path].data = orig

\* ------------------------------------------------------------------------
\* Properties of Gpak.open and Gpak.patch (specification SpecPatch)
\* ------------------------------------------------------------------------
\* the sum of the sizes of the first n entries
RECURSIVE SumSizes(_, _)
SumSizes(entries, n) == IF n = 0 THEN 0 ELSE entries[n].size + SumSizes(entries, n - 1)

\* the bytes a replacement value stands for
Content(value, dir) == IF value.kind = "path" THEN dir[value.path].data ELSE value.data

\* the file is an archive of the format: a directory that opens, followed by
\* exactly the bytes its sizes declare
WellFormed(data) ==
  LET r == GpakOpen(data)
  IN r.err = "none" /\ Len(data) = r.data_start + SumSizes(r.entries, Len(r.entries))

UniqueNames(entries) ==
  \A i, j \in 1..Len(entries) : entries[i].name = entries[j].name => i = j

KeySet(repl) == { repl[i].name : i \in 1..Len(repl) }
NameSet(entries) == { entries[i].name : i \in 1..Len(entries) }

\* Gpak.patch has returned, from a well-formed source, no file having changed
\* under it
PatchedStable == pc = "patched" /\ ~touched /\ WellFormed(fs[gpak.file].data)

\* C6: for a source with unique names the output has header count
\* |kept| + |replacements|, its names are the source names united with the
\* replacement keys, each once, every source entry that is not replaced keeps
\* size and bytes, and every replacement key carries the replacement's content.
C6_ReplaceAddPartition ==
  (PatchedStable /\ UniqueNames(gpak.entries)) =>
    LET out == fs["tmp"].data
        src == fs[gpak.file].data
        o == GpakOpen(out)
        keptNames == NameSet(gpak.entries) \ KeySet(replacements)
    IN /\ o.err = "none"
       /\ UnpackU32(SubSeq(out, 1, 4)) = Cardinality(keptNames) + Len(replacements)
       /\ Len(o.entries) = UnpackU32(SubSeq(out, 1, 4))
       /\ NameSet(o.entries) = NameSet(gpak.entries) \cup KeySet(replacements)
       /\ UniqueNames(o.entries)
       /\ \A i \in 1..Len(gpak.entries) :
            gpak.entries[i].name \in keptNames =>
              \E j \in 1..Len(o.entries) :
                /\ o.entries[j].name = gpak.entries[i].name
                /\ o.entries[j].size = gpak.entries[i].size
                /\ ReadEntry(out, o.entries[j]) = ReadEntry(src, gpak.entries[i])
       /\ \A k \in 1..Len(replacements) :
            \E j \in 1..Len(o.entries) :
              /\ o.entries[j].name = replacements[k].name
              /\ o.entries[j].size = Len(Content(replacements[k].value, tdir))
              /\ ReadEntry(out, o.entries[j]) = Content(replacements[k].value, tdir)

\* source names {a, b}, replacement keys {b, é}: one entry kept, one
\* replaced, one added
C6_Witness ==
  /\ PatchedStable
  /\ orig = ArchiveAB
  /\ KeySet(replacements) = { << 98 >>, << 233 >> }
  /\ Len(GpakOpen(fs["tmp"].data).entries) = 3

\* the subsequence of the names of entries that are not replacement keys
RECURSIVE KeptNamesOf(_, _)
KeptNamesOf(entries, keys) ==
  IF entries = << >> THEN << >>
  ELSE (IF Head(entries).name \in keys THEN << >> ELSE << Head(entries).name >>)
       \o KeptNamesOf(Tail(entries), keys)

\* the bytes the directory entry named name, the i-th of the output, stands for
BlobOf(i, nKept, name, src, srcEntries, repl, dir) ==
  IF i <= nKept
    THEN LET k == CHOOSE k \in 1..Len(srcEntries) :
                    /\ srcEntries[k].name = name
                    /\ Cardinality({ m \in 1..k : srcEntries[m].name \notin KeySet(repl) }) = i
         IN ReadEntry(src, srcEntries[k])
    ELSE Content(Lookup(repl, name), dir)

RECURSIVE ConcatBlobs(_, _, _, _, _, _)
ConcatBlobs(i, outEntries, nKept, src, srcEntries, repl) ==
  IF i > Len(outEntries) THEN << >>
  ELSE BlobOf(i, nKept, outEntries[i].name, src, srcEntries, repl, tdir)
       \o ConcatBlobs(i + 1, outEntries, nKept, src, srcEntries, repl)

\* C7: the output directory lists the kept source entries in their original
\* order, then the replacement names in increasing lexicographic order; every
\* directory size is the length of its blob and the data section is the
\* concatenation of the blobs in directory order.
C7_DirectoryAndDataOrder ==
  PatchedStable =>
    LET out == fs["tmp"].data
        src == fs[gpak.file].data
        o == GpakOpen(out)
        keptNames == KeptNamesOf(gpak.entries, KeySet(replacements))
        nKept == Len(keptNames)
    IN /\ o.err = "none"
       /\ Len(o.entries) = nKept + Len(replacements)
       /\ \A i \in 1..nKept : o.entries[i].name = keptNames[i]
       /\ { o.entries[i].name : i \in (nKept + 1)..Len(o.entries) } = KeySet(replacements)
       /\ \A i \in (nKept + 1)..(Len(o.entries) - 1) :
            StrLess(o.entries[i].name, o.entries[i + 1].name)
       /\ \A i \in 1..Len(o.entries) :
            o.entries[i].size =
              Len(BlobOf(i, nKept, o.entries[i].name, src, gpak.entries, replacements, tdir))
       /\ SubSeq(out, o.data_start + 1, Len(out)) =
            ConcatBlobs(1, o.entries, nKept, src, gpak.entries, replacements)

\* a kept entry with data, and two replacements inserted in decreasing order
\* of their names, with different contents
C7_Witness ==
  /\ PatchedStable
  /\ Len(replacements) = 2
  /\ StrLess(replacements[2].name, replacements[1].name)
  /\ Content(replacements[1].value, tdir) # Content(replacements[2].value, tdir)
  /\ \E i \in 1..Len(gpak.entries) :
       gpak.entries[i].name \notin KeySet(replacements) /\ gpak.entries[i].size > 0

\* the bytes the names of the first n entries take in the directory
RECURSIVE NameBytes(_, _)
NameBytes(entries, n) ==
  IF n = 0 THEN 0 ELSE Len(Utf8Encode(entries[n].name)) + NameBytes(entries, n - 1)

\* C8 as claimed, for the runs during which no replacement file changes: when
\* Gpak.patch has returned, the data section it wrote is as long as the sum
\* of the sizes it wrote in the directory.
C8_DataLengthMatchesDirectory ==
  (pc = "patched" /\ ~touched) =>
    LET out == fs["tmp"].data
        o == GpakOpen(out)
    IN /\ o.err = "none"
       /\ Len(out) - o.data_start = SumSizes(o.entries, Len(o.entries))

\* C9: in every Gpak that Gpak.open has returned, data_start is the end of
\* the directory, entry i starts at data_start plus the sizes before it, and
\* the entry after a zero-size entry has the same offset.
C9_OffsetInvariant ==
  gpak.file # "none" =>
    LET E == gpak.entries
    IN /\ gpak.data_start = 4 + 6 * Len(E) + NameBytes(E, Len(E))
       /\ \A i \in 1..Len(E) : E[i].offset = gpak.data_start + SumSizes(E, i - 1)
       /\ \A i \in 1..(Len(E) - 1) : E[i].size = 0 => E[i + 1].offset = E[i].offset

\* the output of a patch, reopened: three entries, a zero-size one not last
C9_Witness ==
  /\ pc = "reopened"
  /\ Len(gpak.entries) = 3
  /\ \E i \in 1..2 : gpak.entries[i].size = 0
  /\ gpak.entries[3].size > 0

\* the orders in which the items of a dict can have been inserted
Reorderings(repl) ==
  { [i \in 1..Len(repl) |-> repl[q[i]]] :
      q \in { q \in [1..Len(repl) -> 1..Len(repl)] :
                \A i, j \in 1..Len(repl) : q[i] = q[j] => i = j } }

\* C10: the archive written is the one a patch run of the same source writes
\* for the same items inserted in any other order.
C10_InsertionOrderIndependent ==
  (pc = "patched" /\ ~touched) =>
    \A r \in Reorderings(replacements) :
      PatchOutput(fs[gpak.file].data, gpak.entries, r, tdir) = fs["tmp"].data

\* two items, inserted in decreasing order of their names, different contents
C10_Witness ==
  /\ pc = "patched"
  /\ ~touched
  /\ Len(replacements) = 2
  /\ StrLess(replacements[2].name, replacements[1].name)
  /\ Content(replacements[1].value, tdir) # Content(replacements[2].value, tdir)

\* ------------------------------------------------------------------------
\* The methods of Gpak on their own
\* ------------------------------------------------------------------------
\* the elements of a list
Elems(seq) == { seq[i] : i \in 1..Len(seq) }

\* C11: when Gpak.patch has returned, the value returned is a list, and its
\* elements are exactly the replacement keys that name an entry of the source.
C11_PatchReturnsReplaced ==
  pc = "patched" =>
    /\ ret.op = "patch"
    /\ ~ret.none
    /\ Elems(ret.val) = KeySet(replacements) \cap NameSet(gpak.entries)

\* the indices of the entries of a name
Occurrences(entries, name) == { i \in 1..Len(entries) : entries[i].name = name }

Last(indices) == CHOOSE i \in indices : \A j \in indices : j <= i

\* C12: Gpak.find returns the last entry of the name in directory order, and
\* None when no entry has the name.
C12_FindLastOccurrence ==
  ret.op = "find" =>
    LET occ == Occurrences(gpak.entries, ret.arg)
    IN IF occ = {} THEN ret.none
       ELSE ~ret.none /\ ret.val = gpak.entries[Last(occ)]

\* the bytes the file holds from an offset on
Available(data, offset) == IF offset >= Len(data) THEN 0 ELSE Len(data) - offset

\* C13: Gpak.read_entry returns the entry.size bytes at entry.offset, and
\* raises a truncated-entry error when the file holds fewer bytes from there.
C13_ReadEntryExactOrError ==
  ret.op = "read_entry" =>
    LET e == gpak.entries[ret.arg]
        data == fs[gpak.file].data
    IN IF Available(data, e.offset) < e.size
         THEN ret.err # "none"
       ELSE /\ ret.err = "none"
            /\ ret.val = [i \in 1..e.size |-> data[e.offset + i]]

\* the entry count and the sizes declared reach past the end of the bytes:
\* the directory is cut, or the data region is shorter than the sizes add up to
Truncated(data) ==
  LET r == GpakOpen(data)
  IN \/ r.err = "struct.error"
     \/ /\ r.err = "none"
        /\ r.data_start + SumSizes(r.entries, Len(r.entries)) > Len(data)

\* C14: Gpak.open of a truncated archive raises and returns no Gpak.
C14_OpenRejectsTruncated ==
  (pc # "gpak_open" /\ Truncated(orig)) =>
    (pc = "except" /\ exc # "none" /\ gpak = NoGpak)

\* ------------------------------------------------------------------------
\* translate.py: incremental translation of one CSV file
\* ------------------------------------------------------------------------
\* the rows of the file
MaxKeys == 41

\* the invocations of translate.py in a behaviour
MaxTRuns == 2

BATCH_SIZE == 20
DEFAULT_WORKERS == 8

\* texts are numbers: NoText is the empty string, 1 and 2 are English texts
NoText == 0

\* what the model answers for an English text
Translated(text) == text + 10

\* dicts: key -> value
EmptyMap == [k \in {} |-> NoText]

Put(m, k, v) == [x \in DOMAIN m \cup {k} |-> IF x = k THEN v ELSE m[x]]

\* the zip loop of do_batch on one of the two mappings
MergeReplyOnly(m, keys, vals) ==
  [k \in Elems(keys) |-> vals[CHOOSE i \in 1..Min(Len(keys), Len(vals)) : keys[i] = k]]

MergeReply(m, keys, vals) ==
  LET n == Min(Len(keys), Len(vals))
      zipped == { keys[i] : i \in 1..n }
  IN [k \in DOMAIN m \cup zipped |->
        IF k \in zipped
          THEN vals[CHOOSE i \in 1..n : keys[i] = k /\ \A j \in 1..n : keys[j] = k => j <= i]
          ELSE m[k]]

\* the decision loop of translate_file over the rows from row i on: a key of
\* empty English text is skipped, a key of the progress mapping keeps the
\* value there, a key whose en column is unchanged and whose target column is
\* not empty keeps that, every other key is sent
RECURSIVE DecideFrom(_, _, _, _, _)
DecideFrom(current_en, prev, ftr, i, acc) ==
  IF i > MaxKeys THEN acc
  ELSE IF i \notin DOMAIN current_en \/ current_en[i] = NoText
    THEN DecideFrom(current_en, prev, ftr, i + 1, acc)
  ELSE IF i \in DOMAIN ftr
    THEN DecideFrom(current_en, prev, ftr, i + 1,
                    [acc EXCEPT !.translations = Put(@, i, ftr[i])])
  ELSE IF /\ prev.ex
          /\ i \in DOMAIN prev.en /\ prev.en[i] = current_en[i]
          /\ i \in DOMAIN prev.tr /\ prev.tr[i] # NoText
    THEN DecideFrom(current_en, prev, ftr, i + 1,
                    [acc EXCEPT !.translations = Put(@, i, prev.tr[i])])
  ELSE DecideFrom(current_en, prev, ftr, i + 1,
                  [acc EXCEPT !.to_keys = Append(@, i)])

Decide(current_en, prev, ftr) ==
  DecideFrom(current_en, prev, ftr, 1, [translations |-> EmptyMap, to_keys |-> << >>])

\* the batches of BATCH_SIZE keys
RECURSIVE SplitBatches(_, _)
SplitBatches(keys, acc) ==
  IF keys = << >> THEN acc
  ELSE LET n == Min(BATCH_SIZE, Len(keys))
       IN SplitBatches(SubSeq(keys, n + 1, Len(keys)), Append(acc, SubSeq(keys, 1, n)))

\* write_translated_csv: the rows of the extracted file, the target column
\* filled in for the keys that have a translation
WriteCsv(current_en, trans) ==
  [ex |-> TRUE,
   en |-> current_en,
   tr |-> [k \in DOMAIN current_en |-> IF k \in DOMAIN trans THEN trans[k] ELSE NoText]]

\* translate_batch: the answer to the whole batch, or the answers one by one
\* where a text whose call fails keeps its English text
TranslateBatch(texts, failing) ==
  [i \in 1..Len(texts) |-> IF i \in failing THEN texts[i] ELSE Translated(texts[i])]

\* the calls that fail: none, the first one
Failures(texts) == { {}, {1} }

\* the extracted files: all rows alike, the text of row 1 changed, the text
\* of the last row empty, the last row not there yet
Rows(n, changed, empty) ==
  [k \in 1..n |-> IF k \in empty THEN NoText ELSE IF k \in changed THEN 2 ELSE 1]

Versions ==
  { Rows(MaxKeys, {}, {}), Rows(MaxKeys, {1}, {}), Rows(MaxKeys, {}, {MaxKeys}),
    Rows(MaxKeys - 1, {}, {}) }

WorkerChoices == { 2, DEFAULT_WORKERS }

\* patch_gpak.py is not running
GIdle ==
  /\ orig = << >>
  /\ fs = [p \in {gpak_path, backup_path, tmp_path} |-> NoFile]
  /\ tdir = [n \in TransNames |-> NoFile]
  /\ pc = "idle"
  /\ no_backup = FALSE
  /\ replacements = << >>
  /\ src_path = gpak_path
  /\ gpak = NoGpak
  /\ ops = << >>
  /\ handles = {}
  /\ exc = "none"
  /\ touched = FALSE
  /\ pre = [gpak |-> NoFile, bak |-> NoFile]
  /\ log = << >>
  /\ ret = NoRet

InitTranslate ==
  /\ GIdle
  /\ extracted \in Versions
  /\ tfile = [ex |-> FALSE, en |-> EmptyMap, tr |-> EmptyMap]
  /\ ckpt = EmptyMap
  /\ targs = [fresh |-> FALSE, workers |-> DEFAULT_WORKERS]
  /\ tpc = "idle"
  /\ file_tr = EmptyMap
  /\ translations = EmptyMap
  /\ to_keys = << >>
  /\ batches = << >>
  /\ bstate = << >>
  /\ reply = << >>
  /\ lock = 0
  /\ completed = 0
  /\ truns = 0
  /\ last_en = EmptyMap
  /\ done_order = << >>

\* main: the arguments are parsed and the progress file is loaded, or
\* ignored with --fresh
TStart ==
  /\ tpc \in { "idle", "returned", "killed" }
  /\ truns < MaxTRuns
  /\ \E f \in BOOLEAN, w \in WorkerChoices : targs' = [fresh |-> f, workers |-> w]
  /\ file_tr' = IF targs'.fresh THEN EmptyMap ELSE ckpt
  /\ translations' = EmptyMap
  /\ to_keys' = << >>
  /\ batches' = << >>
  /\ bstate' = << >>
  /\ reply' = << >>
  /\ lock' = 0
  /\ completed' = 0
  /\ done_order' = << >>
  /\ truns' = truns + 1
  /\ tpc' = "decide"
  /\ UNCHANGED << extracted, tfile, ckpt, last_en >>
  /\ UNCHANGED gvars

\* translate_file up to the thread pool: the files are read, the keys are
\* decided and batched; with nothing to send the CSV is written at once
TDecide ==
  /\ tpc = "decide"
  /\ LET d == Decide(extracted, tfile, file_tr)
     IN /\ translations' = d.translations
        /\ to_keys' = d.to_keys
        /\ IF d.to_keys = << >>
             THEN /\ tfile' = WriteCsv(extracted, d.translations)
                  /\ tpc' = "returned"
                  /\ UNCHANGED << batches, bstate, reply >>
             ELSE /\ batches' = SplitBatches(d.to_keys, << >>)
                  /\ bstate' = [b \in 1..Len(batches') |-> "queued"]
                  /\ reply' = [b \in 1..Len(batches') |-> << >>]
                  /\ tpc' = "pool"
                  /\ UNCHANGED tfile
  /\ UNCHANGED << extracted, ckpt, targs, file_tr, lock, completed, truns,
                  last_en, done_order >>
  /\ UNCHANGED gvars

\* the batches a worker thread of the pool is busy with
Running == { b \in 1..Len(bstate) : bstate[b] \in { "call", "wait", "merge", "save" } }

\* the English texts of a batch
BatchTexts(b) == [i \in 1..Len(batches[b]) |-> extracted[batches[b][i]]]

\* a free worker of the pool takes the next submitted batch: do_batch starts
\* and calls translate_batch
BatchStart(b) ==
  /\ tpc = "pool"
  /\ bstate[b] = "queued"
  /\ \A c \in 1..(b - 1) : bstate[c] # "queued"
  /\ Cardinality(Running) < targs.workers
  /\ bstate' = [bstate EXCEPT ![b] = "call"]
  /\ UNCHANGED << extracted, tfile, ckpt, targs, tpc, file_tr, translations,
                  to_keys, batches, reply, lock, completed, truns, last_en,
                  done_order >>
  /\ UNCHANGED gvars

\* translate_batch returns
BatchReply(b) ==
  /\ tpc = "pool"
  /\ bstate[b] = "call"
  /\ \E failing \in Failures(BatchTexts(b)) :
       reply' = [reply EXCEPT ![b] = TranslateBatch(BatchTexts(b), failing)]
  /\ bstate' = [bstate EXCEPT ![b] = "wait"]
  /\ UNCHANGED << extracted, tfile, ckpt, targs, tpc, file_tr, translations,
                  to_keys, batches, lock, completed, truns, last_en,
                  done_order >>
  /\ UNCHANGED gvars

\* with lock: entered
Acquire(b) ==
  /\ tpc = "pool"
  /\ bstate[b] = "wait"
  /\ lock = 0
  /\ lock' = b
  /\ bstate' = [bstate EXCEPT ![b] = "merge"]
  /\ UNCHANGED << extracted, tfile, ckpt, targs, tpc, file_tr, translations,
                  to_keys, batches, reply, completed, truns, last_en,
                  done_order >>
  /\ UNCHANGED gvars

\* the zip loop under the lock, and the counter
MergeBatch(b) ==
  /\ tpc = "pool"
  /\ bstate[b] = "merge"
  /\ lock = b
  /\ translations' = MergeReply(translations, batches[b], reply[b])
  /\ file_tr' = MergeReply(file_tr, batches[b], reply[b])
  /\ completed' = completed + 1
  /\ last_en' = MergeReply(last_en, batches[b], BatchTexts(b))
  /\ done_order' = Append(done_order, b)
  /\ bstate' = [bstate EXCEPT ![b] = "save"]
  /\ UNCHANGED << extracted, tfile, ckpt, targs, tpc, to_keys, batches, reply,
                  lock, truns >>
  /\ UNCHANGED gvars

\* save_progress under the lock, then the lock is released and do_batch ends
SaveProgress(b) ==
  /\ tpc = "pool"
  /\ bstate[b] = "save"
  /\ lock = b
  /\ ckpt' = file_tr
  /\ lock' = 0
  /\ bstate' = [bstate EXCEPT ![b] = "done"]
  /\ UNCHANGED << extracted, tfile, targs, tpc, file_tr, translations, to_keys,
                  batches, reply, completed, truns, last_en, done_order >>
  /\ UNCHANGED gvars

AllDone == tpc = "pool" /\ \A b \in 1..Len(bstate) : bstate[b] = "done"

\* every future has completed: the translated CSV is written and the
\* invocation ends
PoolExit ==
  /\ AllDone
  /\ tfile' = WriteCsv(extracted, translations)
  /\ tpc' = "returned"
  /\ file_tr' = EmptyMap
  /\ translations' = EmptyMap
  /\ to_keys' = << >>
  /\ batches' = << >>
  /\ bstate' = << >>
  /\ reply' = << >>
  /\ completed' = 0
  /\ done_order' = << >>
  /\ UNCHANGED << extracted, ckpt, targs, lock, truns, last_en >>
  /\ UNCHANGED gvars

\* the process is interrupted while the pool runs: what is in memory is
\* gone, the files stay as they are
Kill ==
  /\ tpc = "pool"
  /\ ~AllDone
  /\ tpc' = "killed"
  /\ file_tr' = EmptyMap
  /\ translations' = EmptyMap
  /\ to_keys' = << >>
  /\ batches' = << >>
  /\ bstate' = << >>
  /\ reply' = << >>
  /\ lock' = 0
  /\ completed' = 0
  /\ done_order' = << >>
  /\ UNCHANGED << extracted, tfile, ckpt, targs, truns, last_en >>
  /\ UNCHANGED gvars

\* extract_text.py is run again on an updated game between two invocations
Update ==
  /\ tpc \in { "returned", "killed" }
  /\ truns < MaxTRuns
  /\ extracted' \in Versions \ { extracted }
  /\ UNCHANGED << tfile, ckpt, targs, tpc, file_tr, translations, to_keys,
                  batches, bstate, reply, lock, completed, truns, last_en,
                  done_order >>
  /\ UNCHANGED gvars

NextTranslate ==
  \/ TStart
  \/ TDecide
  \/ \E b \in 1..Len(bstate) : BatchStart(b)
  \/ \E b \in 1..Len(bstate) : BatchReply(b)
  \/ \E b \in 1..Len(bstate) : Acquire(b)
  \/ \E b \in 1..Len(bstate) : MergeBatch(b)
  \/ \E b \in 1..Len(bstate) : SaveProgress(b)
  \/ PoolExit
  \/ Kill
  \/ Update

SpecTranslate == InitTranslate /\ [][NextTranslate]_vars

\* ------------------------------------------------------------------------
\* Properties of translate.py
\* ------------------------------------------------------------------------
\* the key has a translation the invocation can see: in the progress mapping
\* it loaded or in the target column of the translated CSV
HasTranslation(k) ==
  \/ k \in DOMAIN file_tr
  \/ tfile.ex /\ k \in DOMAIN tfile.tr /\ tfile.tr[k] # NoText

\* C15: in an invocation without --fresh, when translate_file has decided what
\* to send, a key whose English text differs from the text its last
\* translation was made from is among the keys sent, and a key whose English
\* text is the one last translated and that has a translation is not.
C15_OnlyChangedRetranslated ==
  [][ (tpc = "decide" /\ tpc' # "decide" /\ ~targs.fresh) =>
        \A k \in DOMAIN extracted :
          (extracted[k] # NoText /\ k \in DOMAIN last_en) =>
            /\ last_en[k] # extracted[k] => k \in Elems(to_keys')
            /\ (last_en[k] = extracted[k] /\ HasTranslation(k))
                 => k \notin Elems(to_keys') ]_vars

\* the batch and the position of a key sent
ReplyOf(k) ==
  LET b == CHOOSE b \in 1..Len(batches) : k \in Elems(batches[b])
      i == CHOOSE i \in 1..Len(batches[b]) : batches[b][i] = k
  IN reply[b][i]

\* a mapping without the keys sent
Unsent(m) == [k \in DOMAIN m \ Elems(to_keys) |-> m[k]]

\* a mapping with the answers for the keys sent
WithReplies(m) ==
  [k \in DOMAIN m \cup Elems(to_keys) |->
     IF k \in Elems(to_keys) THEN ReplyOf(k) ELSE m[k]]

\* C16: in whatever order the batches were merged, once every batch is done
\* each key sent has in translations and in the progress mapping the answer
\* of its batch, the progress file holds the progress mapping, and both
\* mappings are the kept values with the answers added, whatever the order.
C16_BatchesMergedInAnyOrder ==
  AllDone =>
    /\ \A k \in Elems(to_keys) :
         /\ k \in DOMAIN translations /\ translations[k] = ReplyOf(k)
         /\ k \in DOMAIN file_tr /\ file_tr[k] = ReplyOf(k)
         /\ k \in DOMAIN ckpt /\ ckpt[k] = ReplyOf(k)
    /\ ckpt = file_tr
    /\ translations =
         WithReplies(Decide(extracted, tfile, Unsent(file_tr)).translations)
    /\ file_tr = WithReplies(Unsent(file_tr))
    /\ completed = Len(batches)

\* three batches merged out of the order submitted, the second before the
\* first, one answer with a text left in English, and a key kept
C16_Witness ==
  /\ AllDone
  /\ Len(done_order) = 3
  /\ done_order[1] = 2
  /\ done_order[3] = 1
  /\ \E b \in 1..3 : reply[b][1] = extracted[batches[b][1]]
  /\ \E b \in 1..3 : reply[b][1] # extracted[batches[b][1]]

====
